---- MODULE Spec2Model ----
(***************************************************************************)
(* A model of queries.js: runQueries() connects a MongoClient, issues      *)
(* sixteen store operations against the `books` collection one after the   *)
(* other, logs each result, logs an error if an awaited call rejects, and  *)
(* closes the client in the finally block.                                 *)
(*                                                                         *)
(* The collection is a sequence of documents in natural (insertion) order. *)
(* Prices are in cents (13.99 is 1399).  Strings that the store orders     *)
(* (the decade labels) are sequences of character codes.                   *)
(***************************************************************************)
EXTENDS Integers, Sequences, FiniteSets

\* ---------------------------------------------------------------- bounds
\* Longest initial collection drawn from Catalog.
MaxDocs == 2
\* Longest initial collection of the pagination family.
MaxPageDocs == 12

\* ----------------------------------------------------- program constants
\* The store operations of runQueries are numbered 1..NumOps; 0 is connect.
NumOps == 16
\* { $set: { price: 13.99 } }, in cents.
NewPrice == 1399
\* { published_year: { $gt: 2015 } }
RecentYear == 2015
\* { in_stock: true, published_year: { $gt: 2010 } }
InStockYear == 2010
\* .skip(5).limit(5)
PageSkip == 5
PageLimit == 5
\* { $mod: ["$published_year", 10] }
DecadeMod == 10

ConnectOp == 0
CloseOp == NumOps + 1

\* ------------------------------------------------------------- documents
Book(t, a, g, y, p, s) ==
    [title |-> t, author |-> a, genre |-> g, published_year |-> y,
     price |-> p, in_stock |-> s]

\* The documents an initial collection is drawn from.
Catalog ==
    { Book("Atomic Habits", "James Clear", "Self-Help", 2018, 1199, TRUE),
      Book("Atomic Habits", "James Clear", "Self-Help", 2018, 1399, TRUE),
      Book("1984", "George Orwell", "Dystopian", 1949, 1399, FALSE),
      Book("The Girl on the Train", "Paula Hawkins", "Thriller", 2015, 1199, TRUE),
      Book("Dune", "Frank Herbert", "Science Fiction", 1965, 999, TRUE) }

\* A document as stored: the store gives each inserted document its _id.
Stored(i, b) ==
    [id |-> i, title |-> b.title, author |-> b.author, genre |-> b.genre,
     published_year |-> b.published_year, price |-> b.price,
     in_stock |-> b.in_stock]

Inserted(s) == [i \in 1..Len(s) |-> Stored(i, s[i])]

\* Collections of at most MaxDocs catalogue documents, in any order.
SmallCollections ==
    { Inserted(s) : s \in UNION { [1..n -> Catalog] : n \in 0..MaxDocs } }

\* Collections of n distinct documents, with a "1984" at place at (0: none).
PageBook(i, at) ==
    Book(IF i = at THEN "1984" ELSE "Dune", "Frank Herbert", "Science Fiction",
         1965, 900 + 10 * i, TRUE)

PageCollections ==
    { Inserted([i \in 1..n |-> PageBook(i, at)]) :
        n \in 0..MaxPageDocs, at \in {0, 3, 8} }

\* Collections with one document per year of a set of years, ascending.
YearPool == {999, 1984, 1988, 2016, 2021}

YearBook(y) == Book("Dune", "Frank Herbert", "Science Fiction", y, 999, TRUE)

Ascending(S) ==
    [r \in 1..Cardinality(S) |->
        CHOOSE y \in S : Cardinality({z \in S : z < y}) = r - 1]

YearCollections ==
    { Inserted([i \in 1..Cardinality(S) |-> YearBook(Ascending(S)[i])]) :
        S \in SUBSET YearPool }

InitialCollections == SmallCollections \cup PageCollections \cup YearCollections


\* ------------------------------------------------- the store's operations
Min(a, b) == IF a < b THEN a ELSE b

\* Places of the documents a { title: t } filter matches.
Matching(coll, t) == { i \in 1..Len(coll) : coll[i].title = t }

First(S) == CHOOSE i \in S : \A j \in S : i <= j

\* Mutant of Skip: one document too few is skipped.
SkipOneLess(s, n) == SubSeq(s, n, Len(s))

\* cursor.skip(n) and cursor.limit(n)
Skip(s, n) == SubSeq(s, n + 1, Len(s))
Limit(s, n) == SubSeq(s, 1, Min(n, Len(s)))

\* sort({ price: dir }): dir is 1 or -1.  The store leaves the order of
\* documents with equal keys open; tb is the rule the store happens to use:
\* "first" keeps equal keys in natural order, "last" reverses them.
Precedes(coll, i, j, dir, tb) ==
    \/ dir * coll[i].price < dir * coll[j].price
    \/ /\ coll[i].price = coll[j].price
       /\ IF tb = "first" THEN i < j ELSE j < i

SortByPrice(coll, dir, tb) ==
    [r \in 1..Len(coll) |->
        coll[CHOOSE i \in 1..Len(coll) :
                Cardinality({ j \in 1..Len(coll) :
                                Precedes(coll, j, i, dir, tb) }) = r - 1]]

\* Mutant of UpdateOneDocs: updateMany, every matching document is updated.
UpdateManyDocs(coll, t, p) ==
    [i \in 1..Len(coll) |->
        IF coll[i].title = t THEN [coll[i] EXCEPT !.price = p] ELSE coll[i]]

\* Mutant of UpdateOneDocs: $inc in place of $set.
UpdateOneIncrement(coll, t, p) ==
    LET M == Matching(coll, t)
    IN  IF M = {} THEN coll ELSE [coll EXCEPT ![First(M)].price = @ + p]

\* updateOne(filter on title, { $set: { price } }) without upsert: the first
\* matching document gets the price; modifiedCount counts a real change.
UpdateOneDocs(coll, t, p) ==
    LET M == Matching(coll, t)
    IN  IF M = {} THEN coll ELSE [coll EXCEPT ![First(M)].price = p]

\* Mutant of UpdateOneResult: modifiedCount reports the match, not the change.
UpdateOneResultMatched(coll, t, p) ==
    LET n == IF Matching(coll, t) = {} THEN 0 ELSE 1
    IN  [matchedCount |-> n, modifiedCount |-> n]

UpdateOneResult(coll, t, p) ==
    LET M == Matching(coll, t)
    IN  [matchedCount |-> IF M = {} THEN 0 ELSE 1,
         modifiedCount |->
            IF M # {} /\ coll[First(M)].price # p THEN 1 ELSE 0]

\* Mutant of DeleteOneDocs: deleteMany, every matching document is removed.
DeleteManyDocs(coll, t) == SelectSeq(coll, LAMBDA d : d.title # t)

\* deleteOne(filter on title): the first matching document is removed.
DeleteOneDocs(coll, t) ==
    LET M == Matching(coll, t)
    IN  IF M = {} THEN coll
        ELSE SubSeq(coll, 1, First(M) - 1) \o SubSeq(coll, First(M) + 1, Len(coll))

DeleteOneResult(coll, t) ==
    [deletedCount |->
        IF Matching(coll, t) = {} THEN 0 ELSE 1]

\* createIndex(keys): the index name; creating an existing index adds nothing.
CreateIndex(idx, name) == idx \cup {name}

\* ------------------------------------------------------------ arithmetic
RECURSIVE Gcd(_, _)
Gcd(a, b) == IF b = 0 THEN a ELSE Gcd(b, a % b)

\* The quotient n / d as a fraction in lowest terms (d > 0).
Fraction(n, d) ==
    LET g == IF n = 0 THEN d ELSE Gcd(n, d) IN <<n \div g, d \div g>>

RECURSIVE SumPrice(_)
SumPrice(s) == IF s = <<>> THEN 0 ELSE Head(s).price + SumPrice(Tail(s))

\* $toString of a non-negative integer: its decimal digits as character codes.
RECURSIVE ToString(_)
ToString(n) ==
    IF n < 10 THEN <<48 + n>> ELSE ToString(n \div 10) \o <<48 + (n % 10)>>

\* The literal "s".
SuffixS == <<115>>

\* The store's order on strings: by character code, a proper prefix first.
RECURSIVE StrLess(_, _)
StrLess(s, t) ==
    IF t = <<>> THEN FALSE
    ELSE IF s = <<>> THEN TRUE
    ELSE IF Head(s) # Head(t) THEN Head(s) < Head(t)
    ELSE StrLess(Tail(s), Tail(t))


\* ------------------------------------------- the reads of runQueries
\* Each is the value the awaited call resolves to on the collection coll.

thrillerBooks(coll) == SelectSeq(coll, LAMBDA d : d.genre = "Thriller")

recentBooks(coll) == SelectSeq(coll, LAMBDA d : d.published_year > RecentYear)

authorBooks(coll) == SelectSeq(coll, LAMBDA d : d.author = "James Clear")

updateResult(coll) == UpdateOneResult(coll, "Atomic Habits", NewPrice)

deleteResult(coll) == DeleteOneResult(coll, "1984")

inStockRecent(coll) ==
    SelectSeq(coll, LAMBDA d : d.in_stock /\ d.published_year > InStockYear)

projectedBooks(coll) ==
    [i \in 1..Len(coll) |->
        [title |-> coll[i].title, author |-> coll[i].author,
         price |-> coll[i].price]]

sortedAsc(coll, tb) == SortByPrice(coll, 1, tb)

sortedDesc(coll, tb) == SortByPrice(coll, -1, tb)

page2(coll) == Limit(Skip(coll, PageSkip), PageLimit)

\* $group emits its groups in no stated order: the result is a set.
avgPriceByGenre(coll) ==
    { [id |-> g,
       averagePrice |->
          LET G == SelectSeq(coll, LAMBDA d : d.genre = g)
          IN  Fraction(SumPrice(G), Len(G))] :
        g \in { coll[i].genre : i \in 1..Len(coll) } }

\* Groups by author, the largest count first, the first group kept.  Among
\* equal counts the store's rule tb decides, on the place of each author's
\* first document.
topAuthor(coll, tb) ==
    LET A == { coll[i].author : i \in 1..Len(coll) }
        Count(a) == Cardinality({ i \in 1..Len(coll) : coll[i].author = a })
        Place(a) == First({ i \in 1..Len(coll) : coll[i].author = a })
        Leads(a, b) ==
            \/ Count(a) > Count(b)
            \/ /\ Count(a) = Count(b)
               /\ IF tb = "first" THEN Place(a) < Place(b)
                  ELSE Place(b) < Place(a)
    IN  IF A = {} THEN <<>>
        ELSE LET top == CHOOSE a \in A : \A b \in A \ {a} : Leads(a, b)
             IN  << [id |-> top, count |-> Count(top)] >>

\* Mutant of DecadeLabel: the year is not floored to its decade.
DecadeLabelUnfloored(y) == ToString(y) \o SuffixS

\* $concat: [ $toString: year - (year mod 10), "s" ]
DecadeLabel(y) == ToString(y - (y % DecadeMod)) \o SuffixS

\* Groups by decade label with their counts, ascending by label.
booksByDecade(coll) ==
    LET L == { DecadeLabel(coll[i].published_year) : i \in 1..Len(coll) }
        Count(l) ==
            Cardinality({ i \in 1..Len(coll) :
                            DecadeLabel(coll[i].published_year) = l })
    IN  [r \in 1..Cardinality(L) |->
            LET l == CHOOSE x \in L :
                        Cardinality({ z \in L : StrLess(z, x) }) = r - 1
            IN  [id |-> l, count |-> Count(l)]]

titleIndex == "title_1"

compoundIndex == "author_1_published_year_-1"

\* explain("executionStats") of find({ title: "Dune" }): an index scan over
\* the title index when it exists, a collection scan otherwise.
explainedQuery(coll, idx) ==
    LET n == Cardinality(Matching(coll, "Dune"))
    IN  IF titleIndex \in idx
        THEN [stage |-> "IXSCAN", nReturned |-> n, totalDocsExamined |-> n]
        ELSE [stage |-> "COLLSCAN", nReturned |-> n,
              totalDocsExamined |-> Len(coll)]

\* What operation op resolves to, and what it leaves in the store.
OpResult(op, coll, idx, tb) ==
    CASE op = 1 -> thrillerBooks(coll)
      [] op = 2 -> recentBooks(coll)
      [] op = 3 -> authorBooks(coll)
      [] op = 4 -> updateResult(coll)
      [] op = 5 -> deleteResult(coll)
      [] op = 6 -> inStockRecent(coll)
      [] op = 7 -> projectedBooks(coll)
      [] op = 8 -> sortedAsc(coll, tb)
      [] op = 9 -> sortedDesc(coll, tb)
      [] op = 10 -> page2(coll)
      [] op = 11 -> avgPriceByGenre(coll)
      [] op = 12 -> topAuthor(coll, tb)
      [] op = 13 -> booksByDecade(coll)
      [] op = 14 -> titleIndex
      [] op = 15 -> compoundIndex
      [] op = 16 -> explainedQuery(coll, idx)

BooksAfter(op, coll) ==
    CASE op = 4 -> UpdateOneDocs(coll, "Atomic Habits", NewPrice)
      [] op = 5 -> DeleteOneDocs(coll, "1984")
      [] OTHER -> coll

IndexesAfter(op, idx) ==
    CASE op = 14 -> CreateIndex(idx, titleIndex)
      [] op = 15 -> CreateIndex(idx, compoundIndex)
      [] OTHER -> idx


\* ------------------------------------------------------------- the state
VARIABLES
    books,        \* the collection, in natural order
    indexes,      \* names of the collection's indexes
    tieBreak,     \* the store's rule for equal sort keys
    conn,         \* the client: "Disconnected", "Connected" or "Closed"
    pc,           \* where runQueries is
    step,         \* the operation being called or awaited
    outstanding,  \* calls issued and not yet settled
    issued,       \* calls issued on the client by this run, in order
    res,          \* what operations 1..Len(res) of this run resolved to
    log,          \* the console lines of this run
    failed,       \* the operation whose rejection was caught, if any
    coll0,        \* the collection when this run started
    prev          \* res of the run before this one if nothing failed in it

vars == <<books, indexes, tieBreak, conn, pc, step, outstanding, issued, res,
          log, failed, coll0, prev>>

store == <<books, indexes, tieBreak>>

Line(kind, op) == [kind |-> kind, op |-> op]

Init ==
    /\ books \in InitialCollections
    /\ indexes = {"_id_"}
    /\ tieBreak \in {"first", "last"}
    /\ conn = "Disconnected"
    /\ pc = "call"
    /\ step = ConnectOp
    /\ outstanding = {}
    /\ issued = <<>>
    /\ res = <<>>
    /\ log = <<>>
    /\ failed = {}
    /\ coll0 = books
    /\ prev = <<>>

\* The next statement after operation op has been logged.
AfterOp(op) == IF op = NumOps THEN "finally" ELSE "call"

\* Mutant of Call: the next operation is issued along with this one.
CallPipelined ==
    /\ pc = "call"
    /\ outstanding' = outstanding \cup {step, step + 1}
    /\ issued' = issued \o <<step, step + 1>>
    /\ pc' = "await"
    /\ UNCHANGED <<store, conn, step, res, log, failed, coll0, prev>>

\* runQueries reaches an awaited call: client.connect() or a store operation.
Call ==
    /\ pc = "call"
    /\ outstanding' = outstanding \cup {step}
    /\ issued' = Append(issued, step)
    /\ pc' = "await"
    /\ UNCHANGED <<store, conn, step, res, log, failed, coll0, prev>>

\* await client.connect() resolves; "Connected to MongoDB" is logged.
Connected ==
    /\ pc = "await"
    /\ step = ConnectOp
    /\ conn' = "Connected"
    /\ outstanding' = outstanding \ {step}
    /\ log' = Append(log, Line("ok", step))
    /\ step' = step + 1
    /\ pc' = "call"
    /\ UNCHANGED <<store, issued, res, failed, coll0, prev>>

\* An awaited store operation resolves; its result is logged.
Resolved ==
    /\ pc = "await"
    /\ step \in 1..NumOps
    /\ res' = Append(res, OpResult(step, books, indexes, tieBreak))
    /\ books' = BooksAfter(step, books)
    /\ indexes' = IndexesAfter(step, indexes)
    /\ outstanding' = outstanding \ {step}
    /\ log' = Append(log, Line("ok", step))
    /\ step' = IF step = NumOps THEN step ELSE step + 1
    /\ pc' = AfterOp(step)
    /\ UNCHANGED <<tieBreak, conn, issued, failed, coll0, prev>>

\* Mutant of Rejected: the rejected call is made again.
RejectedRetried ==
    /\ pc = "await"
    /\ outstanding' = outstanding \ {step}
    /\ failed' = {step}
    /\ pc' = "call"
    /\ UNCHANGED <<store, conn, step, issued, res, log, coll0, prev>>

\* The awaited call rejects: control passes to the catch clause.  A rejected
\* call leaves the store as it was.
Rejected ==
    /\ pc = "await"
    /\ outstanding' = outstanding \ {step}
    /\ failed' = {step}
    /\ pc' = "catch"
    /\ UNCHANGED <<store, conn, step, issued, res, log, coll0, prev>>

\* Mutant of Catch: the close is not in a finally block and is skipped.
CatchWithoutCleanup ==
    /\ pc = "catch"
    /\ log' = Append(log, Line("error", step))
    /\ pc' = "done"
    /\ UNCHANGED <<store, conn, step, outstanding, issued, res, failed, coll0,
                   prev>>

\* Mutant of Catch: the error is swallowed without a log line.
CatchSilent ==
    /\ pc = "catch"
    /\ pc' = "finally"
    /\ UNCHANGED <<store, conn, step, outstanding, issued, res, log, failed,
                   coll0, prev>>

\* catch (err): the error line is logged.
Catch ==
    /\ pc = "catch"
    /\ log' = Append(log, Line("error", step))
    /\ pc' = "finally"
    /\ UNCHANGED <<store, conn, step, outstanding, issued, res, failed, coll0,
                   prev>>

\* finally: client.close() is called.
Finally ==
    /\ pc = "finally"
    /\ outstanding' = outstanding \cup {CloseOp}
    /\ issued' = Append(issued, CloseOp)
    /\ pc' = "closing"
    /\ UNCHANGED <<store, conn, step, res, log, failed, coll0, prev>>

\* await client.close() resolves; "MongoDB connection closed" is logged.
\* (close() is taken to resolve: the failures considered are those of
\* connect and of the sixteen store operations.)
Closed ==
    /\ pc = "closing"
    /\ conn' = "Closed"
    /\ outstanding' = outstanding \ {CloseOp}
    /\ log' = Append(log, Line("closed", CloseOp))
    /\ pc' = "done"
    /\ UNCHANGED <<store, step, issued, res, failed, coll0, prev>>

\* The script is run again, against the store as the last run left it.
Rerun ==
    /\ pc = "done"
    /\ conn' = "Disconnected"
    /\ pc' = "call"
    /\ step' = ConnectOp
    /\ outstanding' = {}
    /\ issued' = <<>>
    /\ res' = <<>>
    /\ log' = <<>>
    /\ failed' = {}
    /\ coll0' = books
    /\ prev' = IF failed = {} THEN res ELSE <<>>
    /\ UNCHANGED store

Next ==
    \/ Call
    \/ Connected
    \/ Resolved
    \/ Rejected
    \/ Catch
    \/ Finally
    \/ Closed
    \/ Rerun

Spec == Init /\ [][Next]_vars


\* ------------------------------------------------------------ properties
Ops == ConnectOp..NumOps

\* How many times this run has called client.close().
CloseCalls == Cardinality({ i \in 1..Len(issued) : issued[i] = CloseOp })

\* The success lines of connect and the operations before op, in order.
OkLines(op) == [i \in 1..op |-> Line("ok", i - 1)]

IdsOf(coll) == { coll[i].id : i \in 1..Len(coll) }

DocOf(coll, id) == coll[CHOOSE i \in 1..Len(coll) : coll[i].id = id]

PlaceOf(coll, id) == CHOOSE i \in 1..Len(coll) : coll[i].id = id

\* C1: in every run, whichever call fails or none, client.close() is called
\* exactly once, by the finally block; no call is issued after it; the client
\* is Closed exactly when the run has ended, so a run that reached Connected
\* never ends without passing through Closed.
C1_ClosedExactlyOnce ==
    /\ CloseCalls <= 1
    /\ CloseCalls = 1 <=> pc \in {"closing", "done"}
    /\ CloseCalls = 1 => issued[Len(issued)] = CloseOp
    /\ conn = "Closed" <=> pc = "done"
    /\ pc = "done" => outstanding = {}
    /\ conn = "Connected" => ConnectOp \notin failed

C1_Witness ==
    /\ pc = "done"
    /\ failed = {5}
    /\ conn = "Closed"
    /\ CloseCalls = 1

\* C2: once the call of operation k (or connect) has rejected, the calls
\* issued by the run are exactly connect and the operations up to k, each
\* once, followed by nothing but the close; and what the earlier update,
\* delete and createIndex calls did to the store stays.
C2_FailureAborts ==
    \A k \in failed :
        /\ failed = {k}
        /\ step = k
        /\ Len(res) = (IF k = ConnectOp THEN 0 ELSE k - 1)
        /\ \A i \in 1..(k + 1) : issued[i] = i - 1
        /\ Len(issued) \in {k + 1, k + 2}
        /\ Len(issued) = k + 2 => issued[k + 2] = CloseOp
        /\ k > 4 /\ res[4].modifiedCount = 1 =>
              \E i \in 1..Len(books) :
                  /\ books[i].title = "Atomic Habits"
                  /\ books[i].price = NewPrice
                  /\ DocOf(coll0, books[i].id).price # NewPrice
        /\ k > 5 /\ res[5].deletedCount = 1 => Len(books) = Len(coll0) - 1
        /\ k > 14 => titleIndex \in indexes
        /\ k > 15 => compoundIndex \in indexes

C2_Witness ==
    /\ pc = "done"
    /\ failed = {NumOps}
    /\ res[4].modifiedCount = 1
    /\ res[5].deletedCount = 1
    /\ Len(books) = Len(coll0) - 1
    /\ indexes = {"_id_", titleIndex, compoundIndex}

\* C3: the calls are issued in the fixed order connect, operation 1, ...,
\* operation 16; at most one call is outstanding; and operation k is issued
\* only after connect and every operation before k has resolved and been
\* logged, whatever the results were.
C3_StrictSequence ==
    /\ Cardinality(outstanding) <= 1
    /\ \A i \in 1..Len(issued) :
          \/ issued[i] = i - 1 /\ issued[i] \in Ops
          \/ issued[i] = CloseOp /\ i = Len(issued)
    /\ \A i \in 1..Len(issued) :
          issued[i] \in 1..NumOps =>
              /\ Len(log) >= i - 1
              /\ SubSeq(log, 1, i - 1) = OkLines(i - 1)
              /\ Len(res) >= i - 2
    /\ outstanding \subseteq { issued[i] : i \in 1..Len(issued) }
    /\ pc = "await" => outstanding = {step}

C3_Witness ==
    /\ pc = "await"
    /\ step = NumOps
    /\ outstanding = {NumOps}
    /\ Len(res) = NumOps - 1
    /\ books # coll0


\* C4: a run in which operation k failed logs the success lines of what came
\* before k in order, then one error line, and no success line for k or
\* anything later; a run without failure logs no error line; in both the
\* closed line comes last and only once the close has completed.
C4_LogShape ==
    LET body == IF failed = {} THEN OkLines(NumOps + 1)
                ELSE OkLines(step) \o << Line("error", step) >>
        closed == { i \in 1..Len(log) : log[i].kind = "closed" }
        errors == { i \in 1..Len(log) : log[i].kind = "error" }
    IN  /\ pc = "done" => log = body \o << Line("closed", CloseOp) >>
        /\ closed # {} => conn = "Closed" /\ closed = {Len(log)}
        /\ failed = {} => errors = {}
        /\ Cardinality(errors) <= 1
        /\ \A i \in 1..Len(log) :
              log[i].kind = "ok" => log[i].op = i - 1 /\ log[i].op \notin failed

C4_Witness ==
    /\ pc = "done"
    /\ failed = {9}
    /\ Len(log) = 11
    /\ log[10] = Line("error", 9)
    /\ log[11].kind = "closed"

\* C5 as claimed: once the delete step of a run has completed, no document
\* titled "1984" remains, and deletedCount is 1 if one existed when the run
\* started and 0 otherwise.
C5_Claimed ==
    Len(res) >= 5 =>
        /\ Matching(books, "1984") = {}
        /\ res[5].deletedCount = (IF Matching(coll0, "1984") = {} THEN 0 ELSE 1)

\* C5 as amended: once the delete step has completed, the first document
\* titled "1984" is gone and every other document is still there (so none
\* remains when at most one existed); deletedCount is 1 if one existed when
\* the run started and 0 otherwise.
C5_DeleteFirst ==
    Len(res) >= 5 =>
        LET M == Matching(coll0, "1984")
        IN  /\ IdsOf(books) =
                  IF M = {} THEN IdsOf(coll0)
                  ELSE IdsOf(coll0) \ {coll0[First(M)].id}
            /\ Len(books) = Cardinality(IdsOf(books))
            /\ Cardinality(M) <= 1 => Matching(books, "1984") = {}
            /\ res[5].deletedCount = (IF M = {} THEN 0 ELSE 1)

C5_Witness ==
    /\ Len(res) >= 5
    /\ Cardinality(Matching(coll0, "1984")) = 2
    /\ Cardinality(Matching(books, "1984")) = 1
    /\ res[5].deletedCount = 1

\* The document of the collection coll0 that the update step matches.
UpdateTarget == coll0[First(Matching(coll0, "Atomic Habits"))]

\* C6 as claimed: once the update step of a run has completed, the matched
\* document titled "Atomic Habits" has price 13.99, and modifiedCount is 1 if
\* such a document existed when the run started and 0 if not.
C6_Claimed ==
    Len(res) >= 4 =>
        /\ Matching(coll0, "Atomic Habits") # {} =>
              DocOf(books, UpdateTarget.id).price = NewPrice
        /\ res[4].modifiedCount =
              (IF Matching(coll0, "Atomic Habits") = {} THEN 0 ELSE 1)

\* C6 as amended: once the update step has completed, the first document
\* titled "Atomic Habits" has price 13.99, and modifiedCount is 1 if such a
\* document existed with another price, 0 if none existed or its price was
\* 13.99 already.
C6_UpdateFirst ==
    Len(res) >= 4 =>
        /\ Matching(coll0, "Atomic Habits") # {} =>
              /\ DocOf(books, UpdateTarget.id).price = NewPrice
              /\ DocOf(books, UpdateTarget.id).title = "Atomic Habits"
        /\ res[4].modifiedCount =
              (IF /\ Matching(coll0, "Atomic Habits") # {}
                  /\ UpdateTarget.price # NewPrice
               THEN 1 ELSE 0)
        /\ res[4].matchedCount =
              (IF Matching(coll0, "Atomic Habits") = {} THEN 0 ELSE 1)

C6_Witness ==
    /\ Len(res) >= 4
    /\ Matching(coll0, "Atomic Habits") # {}
    /\ UpdateTarget.price = NewPrice
    /\ res[4].modifiedCount = 0
    /\ Len(coll0) = 2
    /\ coll0[2].price # NewPrice

\* The fixture of published years, and the labels as character codes.
FixtureYears == {1984, 1988, 2016, 2021}

IsFixture(coll) ==
    /\ Len(coll) = Cardinality(FixtureYears)
    /\ { coll[i].published_year : i \in 1..Len(coll) } = FixtureYears

Label1980s == <<49, 57, 56, 48, 115>>
Label2010s == <<50, 48, 49, 48, 115>>
Label2020s == <<50, 48, 50, 48, 115>>

\* C7 as claimed: on documents with the years 1984, 1988, 2016 and 2021 the
\* decade aggregation yields two groups, "1980s" with count 2 and "2010s"
\* with count 2.
C7_Claimed ==
    Len(res) >= 13 /\ IsFixture(books) =>
        res[13] = << [id |-> Label1980s, count |-> 2],
                     [id |-> Label2010s, count |-> 2] >>

\* C7 as amended: on those documents the decade aggregation yields three
\* groups, "1980s" with count 2, "2010s" with count 1 and "2020s" with
\* count 1, ascending by label.
C7_DecadeFixture ==
    Len(res) >= 13 /\ IsFixture(books) =>
        res[13] = << [id |-> Label1980s, count |-> 2],
                     [id |-> Label2010s, count |-> 1],
                     [id |-> Label2020s, count |-> 1] >>

C7_Witness ==
    /\ Len(res) >= 13
    /\ IsFixture(books)
    /\ Len(res[13]) = 3
    /\ res[13][3].id = Label2020s


\* The operations that read before the update, and after the delete.
EarlyReads == 1..3
LateReads == 6..NumOps

C9_Page ==
    Len(res) >= 10 =>
        LET n == Len(books)
            last == IF n < 10 THEN n ELSE 10
        IN  /\ Len(res[10]) = (IF last < 6 THEN 0 ELSE last - 5)
            /\ \A i \in 1..Len(res[10]) : res[10][i] = books[i + 5]
            /\ n = 12 =>
                 res[10] = << books[6], books[7], books[8], books[9],
                              books[10] >>
            /\ n <= 5 => res[10] = <<>>

C9_Witness ==
    /\ Len(res) >= 10
    /\ Len(books) = 12
    /\ Len(res[10]) = 5
    /\ res[10][1].id = 6
    /\ res[10][5].id = 10

\* C10: against the collection the run started with, at most one document
\* differs, one titled "Atomic Habits", and only in its price, now 13.99; at
\* most one is missing, one titled "1984"; none is new and the order is
\* kept; and no step but the completion of the update and of the delete
\* changes the documents.
C10_FrameState ==
    LET changed == { i \in 1..Len(books) : books[i] # DocOf(coll0, books[i].id) }
        missing == IdsOf(coll0) \ IdsOf(books)
    IN  /\ IdsOf(books) \subseteq IdsOf(coll0)
        /\ Len(books) = Cardinality(IdsOf(books))
        /\ \A i, j \in 1..Len(books) :
              i < j => PlaceOf(coll0, books[i].id) < PlaceOf(coll0, books[j].id)
        /\ Cardinality(changed) <= 1
        /\ \A i \in changed :
              /\ books[i].title = "Atomic Habits"
              /\ books[i] = [DocOf(coll0, books[i].id) EXCEPT !.price = NewPrice]
        /\ Cardinality(missing) <= 1
        /\ \A id \in missing : DocOf(coll0, id).title = "1984"
        /\ Len(res) < 4 => books = coll0
        /\ Len(res) < 5 => missing = {}

C10_Frame ==
    /\ []C10_FrameState
    /\ [][books' # books => pc = "await" /\ step \in {4, 5} /\ pc' = "call"]_vars

C10_Witness ==
    /\ pc = "done"
    /\ failed = {}
    /\ Len(coll0) = 2
    /\ Len(books) = 1
    /\ books[1].title = "Atomic Habits"
    /\ books[1].price = NewPrice
    /\ DocOf(coll0, books[1].id).price # NewPrice

====
